---- MODULE Spec2Model ----
(***************************************************************************)
(* Dispatch core of the ride-hailing backend: drivers, rides, trips, the   *)
(* Redis geo index drivers:geo, the matching worker, assignDriver's row    *)
(* locking, and the payments and outbox_events tables.                     *)
(*                                                                         *)
(* The store is PostgreSQL with the tables of infra/postgres/init.sql and  *)
(* the state-transition triggers of the migrations it includes.  A         *)
(* transaction that raises is rolled back: its action is then not enabled  *)
(* (nothing changes).  assignDriver and createPaymentForTrip are modelled  *)
(* statement by statement, with the row locks they take; every other       *)
(* transaction takes its row locks in its first statement and is one step, *)
(* enabled only while no in-flight transaction holds a row it touches.     *)
(*                                                                         *)
(* Four specifications share the actions: Spec drives the services         *)
(* directly, SpecDispatch runs the matching worker against the geo index   *)
(* and the clock, SpecReuse follows rides from assignment to the end of    *)
(* the trip, SpecPay adds the payment service.  SpecOutbox runs the outbox *)
(* worker, processPayment and the provider's webhooks over the payments of *)
(* an ended trip (SpecOutboxLive adds the worker's fairness), and SpecIdem *)
(* sends create-ride requests through the idempotency middleware;          *)
(* SpecIdemPay adds create-payment requests behind the same middleware.    *)
(* SpecTrip runs the trips of assigned rides against the clock, with their *)
(* timestamps and fares; SpecTripErr calls the assignment and trip         *)
(* services in any order and records the calls that throw; SpecWorker is   *)
(* the matching worker's start(), stop() and timer; SpecDispatchLive is    *)
(* SpecDispatch with the worker's and the clock's fairness; SpecCache runs *)
(* the trip handlers beside the cached reads of their drivers.             *)
(***************************************************************************)
EXTENDS Integers, Sequences, FiniteSets, TLC

\* ---------------------------------------------------------------- bounds
NumDrivers == 2
NumRides == 3
\* rides created while the services are driven directly or the clock runs
NumSvcRides == 2
\* assignDriver calls in flight besides the worker's own
NumCalls == 2
\* createPaymentForTrip calls in flight, and payment ids handed out
NumPayCalls == 2
MaxPayId == 3
\* coordinates 1..MaxPos on a line, PosKm kilometres apart
MaxPos == 2
PosKm == 4
\* the clock advances in steps of TickSec seconds, up to MaxAge steps per ride
TickSec == 150
MaxAge == 2
\* payments created while the outbox worker runs
NumOutboxPays == 2
\* steps of the wall clock
MaxTicks == 2
\* transaction ids the payment provider hands out and reports
MaxTxn == 1
\* create-ride requests in flight, and Idempotency-Key values in use
NumReqs == 2
NumKeys == 2
\* the step of the clock, in seconds, while idempotency entries age
IdemTickSec == 150
\* the step of the clock, in seconds, while trips run
TripTickSec == 100
\* workerLoop chains of the matching worker alive at once
NumLoops == 4
\* getDriverById / getDriverStatus calls in flight
NumReaders == 1

Drivers == 1..NumDrivers
Rides == 1..NumRides
SvcRides == 1..NumSvcRides
Calls == 1..NumCalls
PayCalls == 1..NumPayCalls
\* one more transaction slot per ride, for the worker's task on that ride
TaskCall(r) == NumCalls + r
Slots == 1..(NumCalls + NumRides)
Pos == 1..MaxPos
NoDriver == 0
NoLoc == 0
Txns == 1..MaxTxn
Reqs == 1..NumReqs
Keys == 1..NumKeys
\* NULL in payments.next_retry_at and payments.psp_transaction_id; a request
\* without an Idempotency-Key header
NoTime == 0
NoTxn == 0
NoKey == 0
\* NULL in the nullable columns of trips; a field a request body does not carry
Null == -1
Loops == 1..NumLoops
Readers == 1..NumReaders
\* the handle of a timer that has fired: truthy, and clearTimeout ignores it
Fired == 0

\* ------------------------------------------------------- program constants
SEARCH_RADIUS_KM == 5
MAX_DRIVERS == 5
MATCH_TIMEOUT_MS == 60000
PendingMaxAgeMin == 5
PendingLimit == 10
batchSize == 5
RETRY_DELAYS_MS == <<30000, 120000, 480000>>
MAX_RETRIES == 3
OutboxLimit == 10
PollMs == 5000
IdemTtlSec == 300
\* TIER_RATES, in cents; a tier not in the table is charged as ECONOMY
TIER_RATES ==
  [ECONOMY |-> [base |-> 500, per_km |-> 150, per_min |-> 25],
   PREMIUM |-> [base |-> 800, per_km |-> 250, per_min |-> 40],
   LUXURY |-> [base |-> 1500, per_km |-> 400, per_min |-> 60]]
\* tripData?.distance_km || 10.5, in units of 100 m
DefaultDistance == 105
\* rides.surge_multiplier NUMERIC(3,2) DEFAULT 1.0, in hundredths
DefaultSurge == 100

\* ------------------------------------------------------------ state tables
TRIP_TRANSITIONS ==
  [CREATED |-> {"STARTED", "CANCELLED"},
   STARTED |-> {"PAUSED", "ENDED", "CANCELLED"},
   PAUSED |-> {"STARTED", "ENDED", "CANCELLED"},
   ENDED |-> {},
   CANCELLED |-> {}]

RIDE_TRANSITIONS ==
  [REQUESTED |-> {"MATCHING", "CANCELLED", "EXPIRED"},
   MATCHING |-> {"DRIVER_ASSIGNED", "CANCELLED", "EXPIRED"},
   DRIVER_ASSIGNED |-> {"COMPLETED", "CANCELLED"},
   COMPLETED |-> {},
   CANCELLED |-> {},
   EXPIRED |-> {}]

DRIVER_TRANSITIONS ==
  [OFFLINE |-> {"AVAILABLE"},
   AVAILABLE |-> {"OFFLINE", "ON_TRIP"},
   ON_TRIP |-> {"AVAILABLE", "OFFLINE"}]

DRIVER_STATES == {"OFFLINE", "AVAILABLE", "ON_TRIP"}
ActiveTrip == {"CREATED", "STARTED", "PAUSED"}

\* validateTransition: the target is in the table's list for the current state
validateTransition(currentState, targetState, transitions) ==
  /\ currentState \in DOMAIN transitions
  /\ targetState \in transitions[currentState]

canAssignRide(currentState) == currentState = "MATCHING"
canAcceptTrip(currentState) == currentState = "AVAILABLE"
canStartTrip(currentState) == currentState = "CREATED"
canPauseTrip(currentState) == currentState = "STARTED"
canEndTrip(currentState) == currentState \in {"STARTED", "PAUSED"}
canCancelTrip(currentState) == currentState \in {"CREATED", "STARTED", "PAUSED"}

VARIABLES
  drvStatus,   \* drivers.status; "NONE" while the row does not exist
  drvLoc,      \* drivers.latitude/longitude; NoLoc while NULL
  geo,         \* Redis drivers:geo: member -> coordinate; NoLoc when absent
  rideStatus,  \* rides.status; "NONE" while the row does not exist
  rideDriver,  \* rides.assigned_driver_id; NoDriver while NULL
  age,         \* clock steps since rides.created_at
  tripStatus,  \* status of the trip of a ride (trips.ride_id is UNIQUE)
  tripDriver,  \* trips.driver_id
  trips,       \* trips: started_at, ended_at, distance_km, duration_sec, fares
  terms,       \* rides.tier and rides.surge_multiplier
  tx,          \* in-flight assignDriver transactions, by slot
  wphase,      \* matching worker: "idle" between iterations, "pass" inside
  todo,        \* pending rides of the iteration not yet started
  wpc,         \* position of attemptDriverAssignment(ride)
  cands,       \* nearbyDrivers of attemptDriverAssignment(ride)
  idx,         \* loop index into nearbyDrivers
  assignOk,    \* history: successful assignDriver commits per ride
  winner,      \* history: driver written by the first successful commit
  hist,        \* history of the current worker iteration
  payments,    \* payments rows, in commit order
  outbox,      \* outbox_events rows, in commit order
  ptx,         \* in-flight createPaymentForTrip transactions, by call
  nextPay,     \* the next fresh payment id
  now,         \* the wall clock, in milliseconds
  oq,          \* outbox worker: events of the current poll still to process
  step,        \* history: the last processPayment the outbox worker ran
  fails,       \* history: failed PSP calls per payment id
  whResp,      \* history: the last response of the webhook endpoint
  idem,        \* Redis idem:{key} entries
  req,         \* create-ride requests past the idempotency middleware
  resp,        \* history: the last response to each request slot
  origin,      \* history: the response last stored under each key
  raised,      \* history: the last service call that threw and rolled back
  isRunning,   \* matching worker: the flag start() sets and stop() clears
  pollTimer,   \* matching worker: the handle of the last setTimeout
  loops,       \* matching worker: the workerLoop chains, by handle
  halted,      \* history: stop() was called and start() has not been since
  dcache,      \* Redis driver:{id} and driver:status:{id}, by the status they hold
  rd,          \* getDriverById / getDriverStatus calls past their cache miss
  hpc          \* the handler a trip is in, between COMMIT and cache invalidation

coreVars == <<drvStatus, drvLoc, geo, rideStatus, rideDriver, age, tripStatus, tripDriver,
              trips, terms>>
workerVars == <<wphase, todo, wpc, cands, idx, hist>>
assignVars == <<tx, assignOk, winner>>
payVars == <<payments, outbox, ptx, nextPay>>
outboxVars == <<now, oq, step, fails>>
idemVars == <<idem, req, resp, origin>>
lifeVars == <<isRunning, pollTimer, loops, halted>>
\* what the dispatch services leave alone
cacheVars == <<dcache, rd, hpc>>
restTx == <<payVars, outboxVars, whResp, idemVars, raised, lifeVars>>
restVars == <<restTx, cacheVars>>
vars == <<coreVars, workerVars, assignVars, payVars, outboxVars, whResp, idemVars, raised,
          lifeVars, cacheVars>>

NoTx == [ride |-> 0, driver |-> 0, rstatus |-> "NONE", dstatus |-> "NONE", locked |-> FALSE]
NoHist == [quiet |-> TRUE, sel |-> {}, old |-> {}, avail |-> {}]

\* a trips row as INSERT INTO trips (ride_id, driver_id, status) leaves it; the
\* last two fields are history: the tripData endTrip was called with
NoTrip == [started_at |-> Null, ended_at |-> Null, distance_km |-> Null, duration_sec |-> Null,
           base_fare |-> Null, total_fare |-> Null, given_km |-> Null, given_sec |-> Null]
NoTerms == [tier |-> "ECONOMY", surge |-> DefaultSurge]
NoRaise == [op |-> "", ride |-> 0, driver |-> 0, was |-> "NONE"]
\* neither key of the driver is in Redis; no read in flight
NoCache == [row |-> "", status |-> ""]
NoRead == [pc |-> "idle", fn |-> "", driver |-> 0, got |-> ""]

CoreInit ==
  /\ trips = [r \in Rides |-> NoTrip]
  /\ terms = [r \in Rides |-> NoTerms]
  /\ drvStatus = [d \in Drivers |-> "NONE"]
  /\ drvLoc = [d \in Drivers |-> NoLoc]
  /\ geo = [d \in Drivers |-> NoLoc]
  /\ rideStatus = [r \in Rides |-> "NONE"]
  /\ rideDriver = [r \in Rides |-> NoDriver]
  /\ age = [r \in Rides |-> 0]
  /\ tripStatus = [r \in Rides |-> "NONE"]
  /\ tripDriver = [r \in Rides |-> NoDriver]

WorkerInit ==
  /\ wphase = "idle"
  /\ todo = {}
  /\ wpc = [r \in Rides |-> "idle"]
  /\ cands = [r \in Rides |-> <<>>]
  /\ idx = [r \in Rides |-> 0]
  /\ hist = NoHist
  /\ isRunning = FALSE
  /\ pollTimer = Null
  /\ loops = [c \in Loops |-> "none"]
  /\ halted = FALSE
  /\ dcache = [d \in Drivers |-> NoCache]
  /\ rd = [k \in Readers |-> NoRead]
  /\ hpc = [r \in Rides |-> ""]

AssignInit ==
  /\ tx = [c \in Slots |-> NoTx]
  /\ assignOk = [r \in Rides |-> 0]
  /\ winner = [r \in Rides |-> NoDriver]

NoPay == [pc |-> "idle", trip |-> 0, id |-> 0]

PayInit ==
  /\ payments = <<>>
  /\ outbox = <<>>
  /\ ptx = [c \in PayCalls |-> NoPay]
  /\ nextPay = 1

NoRow == [id |-> 0, trip_id |-> 0, status |-> "NONE", retry_count |-> 0,
          next_retry_at |-> NoTime, psp_transaction_id |-> NoTxn]
NoStep == [id |-> 0, outcome |-> "none", before |-> NoRow, after |-> NoRow,
           called |-> FALSE, marked |-> FALSE, at |-> 0]
NoHook == [sig |-> "", status |-> 0, wrote |-> FALSE]

OutboxVarsInit ==
  /\ now = 0
  /\ oq = <<>>
  /\ step = NoStep
  /\ fails = [i \in 1..MaxPayId |-> 0]
  /\ whResp = NoHook

NoEntry == [val |-> <<>>, expires |-> 0, status |-> 0, ep |-> ""]
NoReq == [pc |-> "idle", ep |-> "", key |-> NoKey, valid |-> FALSE]
NoResp == [ep |-> "", key |-> NoKey, status |-> 0, bytes |-> <<>>, ran |-> FALSE, from |-> ""]
NoOrigin == [status |-> 0, bytes |-> <<>>, at |-> 0]

IdemInit ==
  /\ raised = NoRaise
  /\ idem = [k \in Keys |-> NoEntry]
  /\ req = [q \in Reqs |-> NoReq]
  /\ resp = [q \in Reqs |-> NoResp]
  /\ origin = [k \in Keys |-> NoOrigin]

\* ------------------------------------------------------------ the store
\* a store without the constraint, index, trigger or row lock in question:
\* the properties below are checked to fail against these
NoConstraint(r, d) == TRUE
NoIndex(r, d) == TRUE
NoTrigger(old, new) == TRUE
NoRowLock == FALSE

\* rows an in-flight assignDriver holds FOR UPDATE
RideLocked(r) == \E c \in Slots : tx[c].locked /\ tx[c].ride = r
DriverLocked(d) == \E c \in Slots : tx[c].locked /\ tx[c].driver = d
\* trips rows an in-flight createPaymentForTrip holds FOR UPDATE
TripLocked(r) == \E c \in PayCalls : ptx[c].pc # "idle" /\ ptx[c].trip = r

\* BEFORE UPDATE OF status triggers: fire only when the status changes, and
\* raise unless the new status is in the list of the old one
validate_ride_state_transition(old, new) ==
  old = new \/ validateTransition(old, new, RIDE_TRANSITIONS)
validate_driver_state_transition(old, new) ==
  old = new \/ validateTransition(old, new, DRIVER_TRANSITIONS)
validate_trip_state_transition(old, new) ==
  old = new \/ validateTransition(old, new, TRIP_TRANSITIONS)

\* rides.assigned_driver_id UUID UNIQUE
AssignedDriverUnique(r, d) == \A r2 \in Rides \ {r} : rideDriver[r2] # d
\* idx_unique_active_trip_per_driver ON trips(driver_id) WHERE status IN (...)
ActiveTripUnique(r, d) ==
  \A r2 \in Rides \ {r} : ~(tripDriver[r2] = d /\ tripStatus[r2] \in ActiveTrip)
\* trips.ride_id UUID NOT NULL UNIQUE
TripRideUnique(r) == tripStatus[r] = "NONE"

\* an operation other than the worker's ran while an iteration was in progress
Disturbed == [NoHist EXCEPT !.quiet = FALSE]
Disturb == hist' = IF wphase = "pass" THEN Disturbed ELSE hist
\* the same for a transaction whose handler also writes the driver cache
EnvTx == Disturb /\ UNCHANGED <<wphase, todo, wpc, cands, idx, assignVars, restTx>>
EnvFrame == EnvTx /\ UNCHANGED cacheVars

\* ---------------------------------------------------------- driver service
\* new rows get fresh ids: the smallest id not yet used
FreshDriver(d) == drvStatus[d] = "NONE" /\ \A e \in Drivers : e < d => drvStatus[e] # "NONE"
FreshRide(r) == rideStatus[r] = "NONE" /\ \A q \in Rides : q < r => rideStatus[q] # "NONE"

createDriver(d, loc) ==
  /\ FreshDriver(d)
  /\ drvStatus' = [drvStatus EXCEPT ![d] = "AVAILABLE"]
  /\ drvLoc' = [drvLoc EXCEPT ![d] = loc]
  /\ geo' = IF loc # NoLoc THEN [geo EXCEPT ![d] = loc] ELSE geo
  /\ UNCHANGED <<rideStatus, rideDriver, age, tripStatus, tripDriver, trips, terms>>
  /\ EnvFrame

\* geoAdd first, whatever the driver's status, then the UPDATE of the drivers
\* row, issued without awaiting
updateLocation(d, p) ==
  /\ drvStatus[d] # "NONE"
  /\ geo' = [geo EXCEPT ![d] = p]
  /\ drvLoc' = [drvLoc EXCEPT ![d] = p]
  /\ UNCHANGED <<drvStatus, rideStatus, rideDriver, age, tripStatus, tripDriver, trips, terms>>
  /\ EnvFrame

\* updateDriverStatus: the UPDATE of the drivers row (no check in the service,
\* the trigger validates), then the geo index: ZREM on OFFLINE, GEOADD at the
\* row's coordinates on AVAILABLE when it has any, nothing on ON_TRIP
updateDriverStatus(d, status) ==
  /\ drvStatus[d] # "NONE"
  /\ ~DriverLocked(d)
  /\ validate_driver_state_transition(drvStatus[d], status)
  /\ drvStatus' = [drvStatus EXCEPT ![d] = status]
  /\ geo' = IF status = "OFFLINE" THEN [geo EXCEPT ![d] = NoLoc]
            ELSE IF status = "AVAILABLE" /\ drvLoc[d] # NoLoc
                 THEN [geo EXCEPT ![d] = drvLoc[d]]
                 ELSE geo
  /\ UNCHANGED <<drvLoc, rideStatus, rideDriver, age, tripStatus, tripDriver, trips, terms>>
  /\ EnvFrame

\* ------------------------------------------------------------ ride service
\* INSERT INTO rides (..., tier, payment_method, status) VALUES (..., 'MATCHING');
\* surge_multiplier is a column this code never writes
rideInsertAs(r, tier, surge) ==
  /\ FreshRide(r)
  /\ rideStatus' = [rideStatus EXCEPT ![r] = "MATCHING"]
  /\ terms' = [terms EXCEPT ![r] = [tier |-> tier, surge |-> surge]]
  /\ UNCHANGED <<drvStatus, drvLoc, geo, rideDriver, age, tripStatus, tripDriver, trips>>

\* const { ..., tier = 'ECONOMY', ... } = data
rideInsert(r) == rideInsertAs(r, "ECONOMY", DefaultSurge)

createRide(r) == rideInsert(r) /\ EnvFrame

\* wall-clock time passes for the rides that wait in MATCHING
Tick ==
  /\ \E r \in Rides : rideStatus[r] = "MATCHING" /\ age[r] < MaxAge
  /\ age' = [r \in Rides |->
               IF rideStatus[r] = "MATCHING" /\ age[r] < MaxAge THEN age[r] + 1 ELSE age[r]]
  /\ UNCHANGED <<drvStatus, drvLoc, geo, rideStatus, rideDriver, tripStatus, tripDriver,
                 trips, terms>>
  /\ EnvFrame

\* ------------------------------------------------------ assignment service
\* initializeTrip: UPDATE drivers ... WHERE status = AVAILABLE, INSERT trips
initializeTripTx(r, d) ==
  /\ rideStatus[r] # "NONE"
  /\ ~DriverLocked(d) /\ ~RideLocked(r)
  /\ drvStatus[d] = "AVAILABLE"
  /\ validate_driver_state_transition(drvStatus[d], "ON_TRIP")
  /\ TripRideUnique(r)
  /\ ActiveTripUnique(r, d)
  /\ drvStatus' = [drvStatus EXCEPT ![d] = "ON_TRIP"]
  /\ tripStatus' = [tripStatus EXCEPT ![r] = "CREATED"]
  /\ tripDriver' = [tripDriver EXCEPT ![r] = d]
  /\ trips' = [trips EXCEPT ![r] = NoTrip]
  /\ UNCHANGED <<drvLoc, geo, rideStatus, rideDriver, age, terms>>
  /\ EnvTx
\* with nothing in the driver cache, which invalidateDriverCache then leaves so
initializeTrip(r, d) == initializeTripTx(r, d) /\ UNCHANGED cacheVars

\* ------------------------------------------------------------- trip service
\* a store whose timing trigger lets every row through, and a ROLLBACK that
\* keeps what the transaction wrote
NoTimingCheck(status, row) == TRUE
Committed(before, written) == written

\* now() in a statement is the time its transaction began: any past reading
\* of the clock, since the transaction may have waited for its row locks
Past == {t \in {k * TripTickSec * 1000 : k \in 0..MaxTicks} : t <= now}

\* trigger trip_timing_check BEFORE INSERT OR UPDATE ON trips
validate_trip_timing(status, row) ==
  /\ ~(status \in {"STARTED", "PAUSED", "ENDED"} /\ row.started_at = Null)
  /\ ~(status = "ENDED" /\ row.ended_at = Null)
  /\ ~(row.ended_at # Null /\ row.started_at # Null /\ row.ended_at < row.started_at)
  /\ ~(status = "ENDED" /\ (row.total_fare = Null \/ row.base_fare = Null))

\* what a transaction that raised leaves of the rows it wrote
Undone(before, written) == before

\* the catch block of a service call: ROLLBACK, and the error goes to the
\* caller
Raise(op, r, d, was) ==
  /\ raised' = [op |-> op, ride |-> r, driver |-> d, was |-> was]
  /\ Disturb
  /\ UNCHANGED <<drvLoc, geo, rideDriver, age, tripDriver, terms>>
  /\ UNCHANGED <<wphase, todo, wpc, cands, idx, assignVars, payVars, outboxVars, whResp, idemVars,
                 lifeVars, cacheVars>>

\* initializeTrip throws: the UPDATE matched no AVAILABLE driver, or it did and
\* the INSERT INTO trips raised (no such ride, a trip of the ride exists, the
\* driver has an active trip)
initializeTripRaises(r, d) ==
  LET updated == drvStatus[d] = "AVAILABLE"
      inserted == rideStatus[r] # "NONE" /\ TripRideUnique(r) /\ ActiveTripUnique(r, d)
  IN /\ ~DriverLocked(d) /\ ~RideLocked(r)
     /\ ~(updated /\ inserted)
     /\ drvStatus' = [drvStatus EXCEPT ![d] = Undone(@, IF updated THEN "ON_TRIP" ELSE @)]
     /\ UNCHANGED <<rideStatus, tripStatus, trips>>
     /\ Raise("initializeTrip", r, d, drvStatus[d])

\* UPDATE trips SET status = 'STARTED', started_at = now()
Started(r, began) == [trips[r] EXCEPT !.started_at = began]

startTripOk(r, began) ==
  /\ canStartTrip(tripStatus[r])
  /\ validateTransition(tripStatus[r], "STARTED", TRIP_TRANSITIONS)
  /\ validate_trip_state_transition(tripStatus[r], "STARTED")
  /\ validate_trip_timing("STARTED", Started(r, began))

startTrip(r) ==
  /\ tripStatus[r] # "NONE"
  /\ ~RideLocked(r) /\ ~TripLocked(r)
  /\ \E began \in Past :
       /\ startTripOk(r, began)
       /\ trips' = [trips EXCEPT ![r] = Started(r, began)]
  /\ tripStatus' = [tripStatus EXCEPT ![r] = "STARTED"]
  /\ UNCHANGED <<drvStatus, drvLoc, geo, rideStatus, rideDriver, age, tripDriver, terms>>
  /\ EnvFrame

\* startTrip on a trip it refuses: StateTransitionError, ROLLBACK
startTripRaises(r) ==
  /\ tripStatus[r] # "NONE"
  /\ ~RideLocked(r) /\ ~TripLocked(r)
  /\ \E began \in Past :
       /\ ~startTripOk(r, began)
       /\ trips' = Undone(trips, [trips EXCEPT ![r] = Started(r, began)])
  /\ tripStatus' = Undone(tripStatus, [tripStatus EXCEPT ![r] = "STARTED"])
  /\ UNCHANGED <<drvStatus, rideStatus>>
  /\ Raise("startTrip", r, tripDriver[r], tripStatus[r])

pauseTrip(r) ==
  /\ tripStatus[r] # "NONE"
  /\ ~TripLocked(r)
  /\ canPauseTrip(tripStatus[r])
  /\ validateTransition(tripStatus[r], "PAUSED", TRIP_TRANSITIONS)
  /\ validate_trip_state_transition(tripStatus[r], "PAUSED")
  /\ validate_trip_timing("PAUSED", trips[r])
  /\ tripStatus' = [tripStatus EXCEPT ![r] = "PAUSED"]
  /\ UNCHANGED <<drvStatus, drvLoc, geo, rideStatus, rideDriver, age, tripDriver, trips, terms>>
  /\ EnvFrame

\* the three writes of cancelTrip and endTrip: trip, driver -> AVAILABLE, ride
TripCloseTx(r, tripTo, rideTo) ==
  /\ ~RideLocked(r) /\ ~DriverLocked(tripDriver[r]) /\ ~TripLocked(r)
  /\ validateTransition(tripStatus[r], tripTo, TRIP_TRANSITIONS)
  /\ validate_trip_state_transition(tripStatus[r], tripTo)
  /\ validate_driver_state_transition(drvStatus[tripDriver[r]], "AVAILABLE")
  /\ validate_ride_state_transition(rideStatus[r], rideTo)
  /\ tripStatus' = [tripStatus EXCEPT ![r] = tripTo]
  /\ drvStatus' = [drvStatus EXCEPT ![tripDriver[r]] = "AVAILABLE"]
  /\ rideStatus' = [rideStatus EXCEPT ![r] = rideTo]
  /\ UNCHANGED <<drvLoc, geo, rideDriver, age, tripDriver, terms>>
  /\ EnvTx

\* the same statements when one of them raises: the service's check of the
\* trip's status (can) and the UPDATE of the trip to the row given, then the
\* UPDATE of the driver, then the UPDATE of the ride; what was written before
\* the statement that raised is rolled back
TripCloseRaises(op, r, can, tripTo, rideTo, row) ==
  LET d == tripDriver[r]
      t == /\ can
           /\ validateTransition(tripStatus[r], tripTo, TRIP_TRANSITIONS)
           /\ validate_trip_state_transition(tripStatus[r], tripTo)
           /\ validate_trip_timing(tripTo, row)
      td == t /\ validate_driver_state_transition(drvStatus[d], "AVAILABLE")
  IN /\ ~RideLocked(r) /\ ~DriverLocked(d) /\ ~TripLocked(r)
     /\ ~(td /\ validate_ride_state_transition(rideStatus[r], rideTo))
     /\ tripStatus' = Undone(tripStatus, IF t THEN [tripStatus EXCEPT ![r] = tripTo] ELSE tripStatus)
     /\ trips' = Undone(trips, IF t THEN [trips EXCEPT ![r] = row] ELSE trips)
     /\ drvStatus' = Undone(drvStatus, IF td THEN [drvStatus EXCEPT ![d] = "AVAILABLE"] ELSE drvStatus)
     /\ rideStatus' = Undone(rideStatus, rideStatus)
     /\ Raise(op, r, d, tripStatus[r])

cancelTripTx(r) ==
  /\ tripStatus[r] # "NONE"
  /\ canCancelTrip(tripStatus[r])
  /\ validate_trip_timing("CANCELLED", trips[r])
  /\ TripCloseTx(r, "CANCELLED", "CANCELLED")
  /\ UNCHANGED trips
cancelTrip(r) == cancelTripTx(r) /\ UNCHANGED cacheVars

cancelTripRaises(r) ==
  /\ tripStatus[r] # "NONE"
  /\ TripCloseRaises("cancelTrip", r, canCancelTrip(tripStatus[r]), "CANCELLED", "CANCELLED",
                     trips[r])

\* a || b of JavaScript on a number that may be missing: undefined and 0 are
\* falsy
Falsy(x) == x = Null \/ x = 0
\* the request bodies validateEndTrip lets through, as the model draws them:
\* both fields missing, both 0, both in range (10 km, 1200 s)
NoData == [distance_km |-> Null, duration_sec |-> Null]
TripData == {NoData, [distance_km |-> 0, duration_sec |-> 0],
             [distance_km |-> 100, duration_sec |-> 1200]}

\* toFixed(2) of the amount n/den cents: the nearest cent, the larger one
\* when two are equally near
ToFixed2(n, den) == (2 * n + den) \div (2 * den)

\* calculateFare, in cents; distanceKm in units of 100 m, surgeMultiplier in
\* hundredths.  base_fare is the tier's base rate
calculateFare(distanceKm, durationSec, tier, surgeMultiplier) ==
  LET rates == IF tier \in DOMAIN TIER_RATES THEN TIER_RATES[tier] ELSE TIER_RATES.ECONOMY
      \* baseFare + distanceFare + timeFare, in sixtieths of a cent
      subtotal == 60 * rates.base + 6 * distanceKm * rates.per_km + durationSec * rates.per_min
      total == subtotal * surgeMultiplier
  IN [base_fare |-> ToFixed2(rates.base, 1), total_fare |-> ToFixed2(total, 6000)]

\* tripData?.distance_km || 10.5 and tripData?.duration_sec ||
\* Math.floor((new Date() - new Date(trip.started_at)) / 1000)
distanceKmOf(tripData) ==
  IF Falsy(tripData.distance_km) THEN DefaultDistance ELSE tripData.distance_km
durationSecOf(r, tripData) ==
  IF Falsy(tripData.duration_sec)
  THEN (now - (IF trips[r].started_at = Null THEN 0 ELSE trips[r].started_at)) \div 1000
  ELSE tripData.duration_sec

\* UPDATE trips SET status = 'ENDED', ended_at = now(), distance_km,
\* duration_sec, base_fare, total_fare
Ended(r, tripData, began) ==
  LET fareCalc == calculateFare(distanceKmOf(tripData), durationSecOf(r, tripData),
                                terms[r].tier, terms[r].surge)
  IN [trips[r] EXCEPT !.ended_at = began,
                      !.distance_km = distanceKmOf(tripData),
                      !.duration_sec = durationSecOf(r, tripData),
                      !.base_fare = fareCalc.base_fare,
                      !.total_fare = fareCalc.total_fare,
                      !.given_km = tripData.distance_km,
                      !.given_sec = tripData.duration_sec]

endTripTx(r, tripData) ==
  /\ tripStatus[r] # "NONE"
  /\ canEndTrip(tripStatus[r])
  /\ \E began \in Past :
       /\ validate_trip_timing("ENDED", Ended(r, tripData, began))
       /\ trips' = [trips EXCEPT ![r] = Ended(r, tripData, began)]
  /\ TripCloseTx(r, "ENDED", "COMPLETED")
endTrip(r, tripData) == endTripTx(r, tripData) /\ UNCHANGED cacheVars

endTripRaises(r, tripData) ==
  /\ tripStatus[r] # "NONE"
  /\ \E began \in Past :
       TripCloseRaises("endTrip", r, canEndTrip(tripStatus[r]), "ENDED", "COMPLETED",
                       Ended(r, tripData, began))

\* ------------------------------------------------------------ driver cache
\* Only SpecCache follows the driver cache; in the other specifications
\* nothing reads drivers through it and it stays empty.
CacheFrame == UNCHANGED <<coreVars, workerVars, assignVars, restTx>>

\* invalidateDriverCache: DEL driver:{id} and DEL driver:status:{id}
invalidateDriverCache(d) == [dcache EXCEPT ![d] = NoCache]

\* the key a read looks up: driver:{id} or driver:status:{id}
CacheKey(fn) == IF fn = "getDriverById" THEN "row" ELSE "status"

\* getDriverById / getDriverStatus up to the SELECT: a hit returns the cached
\* value, a miss reads the committed row
getDriver(k, fn, d) ==
  /\ rd[k] = NoRead
  /\ drvStatus[d] # "NONE"
  /\ IF dcache[d][CacheKey(fn)] # ""
     THEN UNCHANGED rd
     ELSE rd' = [rd EXCEPT ![k] = [pc |-> "selected", fn |-> fn, driver |-> d,
                                   got |-> drvStatus[d]]]
  /\ UNCHANGED <<dcache, hpc>>
  /\ CacheFrame

\* the setEx calls after the SELECT: both keys in getDriverById, the status
\* key in getDriverStatus
getDriverCaches(k) ==
  /\ rd[k].pc = "selected"
  /\ dcache' = [dcache EXCEPT ![rd[k].driver] =
                  IF rd[k].fn = "getDriverById"
                  THEN [row |-> rd[k].got, status |-> rd[k].got]
                  ELSE [@ EXCEPT !.status = rd[k].got]]
  /\ rd' = [rd EXCEPT ![k] = NoRead]
  /\ UNCHANGED hpc
  /\ CacheFrame

\* CACHE_TTL.DRIVER_STATUS has passed for a key
cacheExpires(d, key) ==
  /\ dcache[d][key] # ""
  /\ dcache' = [dcache EXCEPT ![d][key] = ""]
  /\ UNCHANGED <<rd, hpc>>
  /\ CacheFrame

\* initializeTrip by the ride's driver: COMMIT, then invalidateDriverCache
initializeTripCommits(r) ==
  /\ hpc[r] = ""
  /\ rideDriver[r] # NoDriver
  /\ initializeTripTx(r, rideDriver[r])
  /\ hpc' = [hpc EXCEPT ![r] = "initializeTrip"]
  /\ UNCHANGED <<dcache, rd>>
initializeTripInvalidates(r) ==
  /\ hpc[r] = "initializeTrip"
  /\ dcache' = invalidateDriverCache(tripDriver[r])
  /\ hpc' = [hpc EXCEPT ![r] = ""]
  /\ UNCHANGED rd
  /\ CacheFrame

\* endTrip and cancelTrip: the three UPDATEs, then invalidateDriverCache
\* inside the transaction, then COMMIT; until the COMMIT every other session
\* reads the rows as they were
closeInvalidates(r, op) ==
  /\ hpc[r] = ""
  /\ tripStatus[r] # "NONE"
  /\ IF op = "endTrip" THEN canEndTrip(tripStatus[r]) ELSE canCancelTrip(tripStatus[r])
  /\ dcache' = invalidateDriverCache(tripDriver[r])
  /\ hpc' = [hpc EXCEPT ![r] = op]
  /\ UNCHANGED rd
  /\ CacheFrame
closeCommits(r) ==
  /\ hpc[r] \in {"endTrip", "cancelTrip"}
  /\ IF hpc[r] = "endTrip" THEN endTripTx(r, NoData) ELSE cancelTripTx(r)
  /\ hpc' = [hpc EXCEPT ![r] = ""]
  /\ UNCHANGED <<dcache, rd>>

\* ------------------------------------------------------- matching service
Abs(x) == IF x < 0 THEN 0 - x ELSE x
Min(a, b) == IF a < b THEN a ELSE b
\* every ride of the model is picked up at the first coordinate
PickupPos == CHOOSE p \in Pos : \A q \in Pos : p <= q
DistKm(p, q) == PosKm * Abs(p - q)

\* GEOSEARCH drivers:geo FROMLONLAT BYRADIUS 5 km ASC COUNT 5: the members in
\* the radius, nearest first, cut to MAX_DRIVERS; members at the same distance
\* come in any order
InRadius == {d \in Drivers : geo[d] # NoLoc /\ DistKm(geo[d], PickupPos) <= SEARCH_RADIUS_KM}
findNearbyDrivers ==
  LET n == Min(Cardinality(InRadius), MAX_DRIVERS)
      far(s, d) == \A i \in 1..n : DistKm(geo[s[i]], PickupPos) <= DistKm(geo[d], PickupPos)
  IN {s \in [1..n -> InRadius] :
        /\ \A i, j \in 1..n : i < j =>
             /\ s[i] # s[j]
             /\ DistKm(geo[s[i]], PickupPos) <= DistKm(geo[s[j]], PickupPos)
        /\ \A d \in InRadius \ {s[i] : i \in 1..n} : far(s, d)}

\* ---------------------------------------------------------- assignDriver
\* SELECT ... FROM rides r, drivers d WHERE r.id=$1 AND d.id=$2 FOR UPDATE OF r, d
SelectForUpdate == TRUE

\* BEGIN and the locking SELECT: waits while another transaction holds either
\* row, throws (not enabled) when the ride or the driver does not exist
AssignSelect(c, r, d) ==
  /\ tx[c] = NoTx
  /\ rideStatus[r] # "NONE" /\ drvStatus[d] # "NONE"
  /\ ~RideLocked(r) /\ ~DriverLocked(d)
  /\ tx' = [tx EXCEPT ![c] = [ride |-> r, driver |-> d, rstatus |-> rideStatus[r],
                              dstatus |-> drvStatus[d], locked |-> SelectForUpdate]]
  /\ UNCHANGED <<coreVars, assignOk, winner, restVars>>

\* the checks on the row that was read, then the UPDATE with its trigger and
\* the UNIQUE constraint on assigned_driver_id
AssignSucceeds(c) ==
  /\ canAssignRide(tx[c].rstatus)
  /\ validateTransition(tx[c].rstatus, "DRIVER_ASSIGNED", RIDE_TRANSITIONS)
  /\ canAcceptTrip(tx[c].dstatus)
  /\ validateTransition(tx[c].dstatus, "ON_TRIP", DRIVER_TRANSITIONS)
  /\ validate_ride_state_transition(rideStatus[tx[c].ride], "DRIVER_ASSIGNED")
  /\ AssignedDriverUnique(tx[c].ride, tx[c].driver)

\* COMMIT on success, ROLLBACK otherwise; either way the locks are released
AssignWrite(c) ==
  /\ tx[c] # NoTx
  /\ tx' = [tx EXCEPT ![c] = NoTx]
  /\ IF AssignSucceeds(c)
     THEN /\ rideStatus' = [rideStatus EXCEPT ![tx[c].ride] = "DRIVER_ASSIGNED"]
          /\ rideDriver' = [rideDriver EXCEPT ![tx[c].ride] = tx[c].driver]
          /\ assignOk' = [assignOk EXCEPT ![tx[c].ride] = @ + 1]
          /\ winner' = [winner EXCEPT ![tx[c].ride] = IF @ = NoDriver THEN tx[c].driver ELSE @]
     ELSE UNCHANGED <<rideStatus, rideDriver, assignOk, winner>>
  /\ UNCHANGED <<drvStatus, drvLoc, geo, age, tripStatus, tripDriver, trips, terms, restVars>>

\* assignDriver called directly by a dispatch instance
CallSelect(c, r, d) == AssignSelect(c, r, d) /\ UNCHANGED workerVars
CallWrite(c) == AssignWrite(c) /\ UNCHANGED workerVars
\* the two ways a direct call ends: COMMIT, or the catch block with its
\* ROLLBACK, the rows as the locking SELECT read them
CallCommits(c) == AssignSucceeds(c) /\ CallWrite(c)
assignDriverRaises(c) ==
  /\ tx[c] # NoTx
  /\ ~AssignSucceeds(c)
  /\ tx' = [tx EXCEPT ![c] = NoTx]
  /\ raised' = [op |-> "assignDriver", ride |-> tx[c].ride, driver |-> tx[c].driver,
                was |-> tx[c].rstatus]
  /\ UNCHANGED <<coreVars, workerVars, assignOk, winner, payVars, outboxVars, whResp, idemVars,
                 lifeVars, cacheVars>>

\* --------------------------------------------------------- matching worker
AgeMs(r) == age[r] * TickSec * 1000
\* a timeout compared against the selection window instead
WindowExpire(r) == AgeMs(r) > PendingMaxAgeMin * 60 * 1000
\* rideAge > MATCH_TIMEOUT_MS
ShouldExpire(r) == AgeMs(r) > MATCH_TIMEOUT_MS

\* getPendingRides: MATCHING, created within the last 5 minutes, oldest first,
\* LIMIT 10
PendingRows == {r \in Rides : rideStatus[r] = "MATCHING" /\ AgeMs(r) < PendingMaxAgeMin * 60 * 1000}
OldestOf(S, n) ==
  {T \in SUBSET S : /\ Cardinality(T) = Min(n, Cardinality(S))
                    /\ \A a \in T, b \in S \ T : age[a] >= age[b]}
getPendingRides == OldestOf(PendingRows, PendingLimit)

\* the logger call after a successful assignDriver reads result.trip.id, and
\* assignDriver returns no trip: the TypeError lands in the loop's catch
SuccessLogThrows == TRUE

Running == {r \in Rides : wpc[r] \in {"find", "expire", "assign", "write"}}

Snapshot(sel) ==
  [quiet |-> TRUE,
   sel |-> sel,
   old |-> {r \in Rides : rideStatus[r] = "MATCHING" /\ AgeMs(r) > MATCH_TIMEOUT_MS},
   avail |-> {d \in InRadius : drvStatus[d] = "AVAILABLE"}]

\* processMatchingRides up to the first Promise.allSettled; with no pending
\* rides the iteration is over at once
PassStart ==
  /\ wphase = "idle"
  /\ \E sel \in getPendingRides :
       /\ \E batch \in OldestOf(sel, batchSize) :
            /\ wpc' = [r \in Rides |-> IF r \in batch THEN "find" ELSE "idle"]
            /\ todo' = sel \ batch
       /\ hist' = Snapshot(sel)
  /\ wphase' = "pass"
  /\ cands' = [r \in Rides |-> <<>>]
  /\ idx' = [r \in Rides |-> 0]
  /\ UNCHANGED <<coreVars, assignVars, restVars>>

\* attemptDriverAssignment up to its first write: the geo query, and on an
\* empty answer the age check
TaskFind(r) ==
  /\ wpc[r] = "find"
  /\ \E s \in findNearbyDrivers :
       /\ cands' = [cands EXCEPT ![r] = s]
       /\ IF Len(s) = 0
          THEN /\ wpc' = [wpc EXCEPT ![r] = IF ShouldExpire(r) THEN "expire" ELSE "done"]
               /\ idx' = idx
          ELSE /\ wpc' = [wpc EXCEPT ![r] = "assign"]
               /\ idx' = [idx EXCEPT ![r] = 1]
  /\ UNCHANGED <<coreVars, assignVars, restVars, wphase, todo, hist>>

\* expireRide: UPDATE rides SET status = 'EXPIRED' WHERE id = $1 AND status = 'MATCHING'
expireRide(r) ==
  /\ ~RideLocked(r)
  /\ rideStatus' = IF rideStatus[r] = "MATCHING" /\ validate_ride_state_transition(rideStatus[r], "EXPIRED")
                   THEN [rideStatus EXCEPT ![r] = "EXPIRED"]
                   ELSE rideStatus
  /\ UNCHANGED <<drvStatus, drvLoc, geo, rideDriver, age, tripStatus, tripDriver, trips, terms>>
  /\ UNCHANGED <<assignVars, restVars>>

TaskExpire(r) ==
  /\ wpc[r] = "expire"
  /\ expireRide(r)
  /\ wpc' = [wpc EXCEPT ![r] = "done"]
  /\ UNCHANGED <<wphase, todo, cands, idx, hist>>

\* the worker's task for ride r runs its transactions in its own slot
TaskAssignSelect(r) ==
  /\ wpc[r] = "assign"
  /\ AssignSelect(TaskCall(r), r, cands[r][idx[r]])
  /\ wpc' = [wpc EXCEPT ![r] = "write"]
  /\ UNCHANGED <<wphase, todo, cands, idx, hist>>

\* the end of one assignDriver call in the candidate loop, and the loop's
\* next move: return on success, the next candidate on a throw
TaskAssignWrite(r) ==
  /\ wpc[r] = "write"
  /\ AssignWrite(TaskCall(r))
  /\ LET ok == AssignSucceeds(TaskCall(r))
         returns == ok /\ ~SuccessLogThrows
         more == idx[r] < Len(cands[r])
     IN /\ wpc' = [wpc EXCEPT ![r] = IF ~returns /\ more THEN "assign" ELSE "done"]
        /\ idx' = [idx EXCEPT ![r] = IF ~returns /\ more THEN @ + 1 ELSE @]
  /\ UNCHANGED <<wphase, todo, cands, hist>>

PassDone == wphase = "pass" /\ Running = {} /\ todo = {}

\* Promise.allSettled has settled: the next slice of batchSize rides starts, or
\* the iteration is over and the next one starts POLL_INTERVAL_MS later
BatchSettled ==
  /\ wphase = "pass" /\ Running = {}
  /\ IF todo # {}
     THEN /\ \E batch \in OldestOf(todo, batchSize) :
               /\ wpc' = [r \in Rides |-> IF r \in batch THEN "find" ELSE wpc[r]]
               /\ todo' = todo \ batch
          /\ UNCHANGED <<wphase, cands, idx, hist>>
     ELSE /\ wphase' = "idle"
          /\ wpc' = [r \in Rides |-> "idle"]
          /\ cands' = [r \in Rides |-> <<>>]
          /\ idx' = [r \in Rides |-> 0]
          /\ hist' = NoHist
          /\ todo' = todo
  /\ UNCHANGED <<coreVars, assignVars, restVars>>

\* ------------------------------------------- matching worker: start and stop
\* A workerLoop chain is "running" from the call of processMatchingRides to
\* the end of its await, "scheduled" while its setTimeout is pending, and
\* "none" otherwise; what the iteration does to the rides is StartPass to
\* FinishPass above and is left out here.
LifeFrame ==
  UNCHANGED <<coreVars, workerVars, assignVars, payVars, outboxVars, whResp, idemVars, raised,
              cacheVars>>

\* clearTimeout(timer): a pending timer never fires; any other handle is ignored
clearTimeout(timer) ==
  [c \in Loops |-> IF c = timer /\ loops[c] = "scheduled" THEN "none" ELSE loops[c]]

\* start(): returns at once while the worker runs; otherwise sets the flag
\* and calls workerLoop(), which runs up to its await
start ==
  /\ halted' = FALSE
  /\ IF isRunning
     THEN UNCHANGED <<isRunning, pollTimer, loops>>
     ELSE /\ isRunning' = TRUE
          /\ \E c \in Loops :
               /\ loops[c] = "none"
               /\ loops' = [loops EXCEPT ![c] = "running"]
          /\ UNCHANGED pollTimer
  /\ LifeFrame

\* stop()
stop ==
  /\ halted' = TRUE
  /\ IF ~isRunning
     THEN UNCHANGED <<isRunning, pollTimer, loops>>
     ELSE /\ isRunning' = FALSE
          /\ IF pollTimer # Null
             THEN /\ loops' = clearTimeout(pollTimer)
                  /\ pollTimer' = Null
             ELSE UNCHANGED <<pollTimer, loops>>
  /\ LifeFrame

\* workerLoop() called by the timer of chain c: up to the await
workerLoop(c) ==
  /\ loops[c] = "scheduled"
  /\ pollTimer' = IF pollTimer = c THEN Fired ELSE pollTimer
  /\ loops' = [loops EXCEPT ![c] = IF ~isRunning THEN "none" ELSE "running"]
  /\ UNCHANGED <<isRunning, halted>>
  /\ LifeFrame

\* workerLoop() of chain c after its await: schedule the next iteration
workerLoopResumes(c) ==
  /\ loops[c] = "running"
  /\ IF isRunning
     THEN /\ pollTimer' = c
          /\ loops' = [loops EXCEPT ![c] = "scheduled"]
     ELSE /\ loops' = [loops EXCEPT ![c] = "none"]
          /\ UNCHANGED pollTimer
  /\ UNCHANGED <<isRunning, halted>>
  /\ LifeFrame

\* --------------------------------------------------------- payment service
\* what is left of the rows a transaction wrote once it ends in ROLLBACK
Kept(rows) == rows
RolledBack(rows) == <<>>

HookFrame == UNCHANGED <<coreVars, workerVars, assignVars, outboxVars, idemVars, raised, lifeVars, cacheVars>>
PayFrame == HookFrame /\ UNCHANGED whResp

\* createPaymentForTrip, BEGIN and SELECT id, total_fare FROM trips ... FOR
\* UPDATE: throws when there is no such trip
PayBegin(c, t) ==
  /\ ptx[c] = NoPay
  /\ tripStatus[t] # "NONE"
  /\ ~TripLocked(t)
  /\ ptx' = [ptx EXCEPT ![c] = [pc |-> "locked", trip |-> t, id |-> 0]]
  /\ UNCHANGED <<payments, outbox, nextPay>> /\ PayFrame

\* INSERT INTO payments (trip_id, amount, 'PENDING'): amount is NOT NULL, and
\* total_fare is set by endTrip only
PayInsertPayment(c) ==
  /\ ptx[c].pc = "locked"
  /\ tripStatus[ptx[c].trip] = "ENDED"
  /\ nextPay <= MaxPayId
  /\ ptx' = [ptx EXCEPT ![c] = [@ EXCEPT !.pc = "paid", !.id = nextPay]]
  /\ nextPay' = nextPay + 1
  /\ UNCHANGED <<payments, outbox>> /\ PayFrame

\* INSERT INTO outbox_events ('PAYMENT', payment.id, 'PAYMENT_CREATED', payment)
PayInsertEvent(c) ==
  /\ ptx[c].pc = "paid"
  /\ ptx' = [ptx EXCEPT ![c] = [@ EXCEPT !.pc = "evented"]]
  /\ UNCHANGED <<payments, outbox, nextPay>> /\ PayFrame

PayRow(c) == [id |-> ptx[c].id, trip_id |-> ptx[c].trip, status |-> "PENDING",
              retry_count |-> 0, next_retry_at |-> NoTime, psp_transaction_id |-> NoTxn]
EventRow(c) == [aggregate_id |-> ptx[c].id, event_type |-> "PAYMENT_CREATED", processed |-> FALSE]

PayCommit(c) ==
  /\ ptx[c].pc = "evented"
  /\ payments' = Append(payments, PayRow(c))
  /\ outbox' = Append(outbox, EventRow(c))
  /\ ptx' = [ptx EXCEPT ![c] = NoPay]
  /\ UNCHANGED nextPay /\ PayFrame

\* a statement or the COMMIT raised: the catch block's ROLLBACK
PayRollback(c) ==
  /\ ptx[c].pc # "idle"
  /\ payments' = payments \o RolledBack(IF ptx[c].pc \in {"paid", "evented"} THEN <<PayRow(c)>> ELSE <<>>)
  /\ outbox' = outbox \o RolledBack(IF ptx[c].pc = "evented" THEN <<EventRow(c)>> ELSE <<>>)
  /\ ptx' = [ptx EXCEPT ![c] = NoPay]
  /\ UNCHANGED nextPay /\ PayFrame

\* handleWebhook (service): UPDATE payments SET status, psp_transaction_id
\* WHERE id, whatever the row's status is; then the payment's unprocessed
\* outbox events are marked processed
handleWebhook(i, txn, succeeded) ==
  /\ i \in DOMAIN payments
  /\ payments' = [payments EXCEPT ![i].status = IF succeeded THEN "COMPLETED" ELSE "FAILED",
                                  ![i].psp_transaction_id = txn]
  /\ outbox' = [j \in DOMAIN outbox |->
                  IF outbox[j].aggregate_id = payments[i].id
                  THEN [outbox[j] EXCEPT !.processed = TRUE] ELSE outbox[j]]
  /\ UNCHANGED <<ptx, nextPay>> /\ HookFrame

\* a webhook request carries no X-PSP-Signature header, a signature the
\* provider's secret produces, or any other signature
Signatures == {"none", "valid", "invalid"}
\* the controller's test of the header: if (!signature) return 401; the
\* verification of a present signature is commented out
SignatureAccepted(sig) == sig # "none"

\* POST /v1/payments/webhooks/psp
webhook(sig, i, txn, succeeded) ==
  IF SignatureAccepted(sig)
  THEN /\ handleWebhook(i, txn, succeeded)
       /\ whResp' = [sig |-> sig, status |-> 200, wrote |-> TRUE]
  ELSE /\ whResp' = [sig |-> sig, status |-> 401, wrote |-> FALSE]
       /\ UNCHANGED <<payVars, coreVars, workerVars, assignVars, outboxVars, idemVars, raised, lifeVars, cacheVars>>

\* ----------------------------------------------------------- outbox worker
\* the wall clock advances by ms milliseconds
Advance(ms) ==
  /\ now + ms <= MaxTicks * ms
  /\ now' = now + ms
  /\ UNCHANGED <<oq, step, fails, whResp, coreVars, workerVars, assignVars, payVars, idemVars, raised, lifeVars, cacheVars>>

RowOf(id) == CHOOSE i \in DOMAIN payments : payments[i].id = id
Unprocessed == {j \in DOMAIN outbox : ~outbox[j].processed}
FirstOf(S, n) == {j \in S : Cardinality({k \in S : k < j}) < n}
RECURSIVE InOrder(_)
InOrder(S) ==
  IF S = {} THEN <<>>
  ELSE LET j == CHOOSE x \in S : \A y \in S : x <= y IN <<j>> \o InOrder(S \ {j})

\* processOutbox: SELECT * FROM outbox_events WHERE processed = false ORDER
\* BY created_at LIMIT 10; it returns at once when there is none
OutboxPoll ==
  /\ oq = <<>>
  /\ Unprocessed # {}
  /\ oq' = InOrder(FirstOf(Unprocessed, OutboxLimit))
  /\ UNCHANGED <<now, step, fails, whResp, coreVars, workerVars, assignVars, payVars, idemVars, raised, lifeVars, cacheVars>>

\* a processPayment that finalises on acceptance, never gives up, waits the
\* same time after every failure, or never marks an event
Finalised == "COMPLETED"
NeverExhausted(p) == FALSE
FlatDelay(k) == RETRY_DELAYS_MS[1]
NoMark(outcome) == FALSE

\* processPayment's tests on the locked row, in the order of the code
AlreadyProcessed(p) == p.status \in {"COMPLETED", "PROCESSING"}
RetriesExhausted(p) == p.retry_count >= MAX_RETRIES
\* the status written when the provider accepted the request
AcceptedStatus == "PROCESSING"
\* RETRY_DELAYS_MS[retryCount - 1] || RETRY_DELAYS_MS[RETRY_DELAYS_MS.length - 1]
RetryDelay(k) ==
  IF k \in DOMAIN RETRY_DELAYS_MS THEN RETRY_DELAYS_MS[k] ELSE RETRY_DELAYS_MS[Len(RETRY_DELAYS_MS)]
\* processOutbox marks the event processed for result.alreadyProcessed and in
\* its last branch (max retries exceeded)
MarksProcessed(outcome) == outcome \in {"already", "exhausted"}

\* the row processPayment commits for the row p it locked, by outcome
Processed(p, outcome, txn) ==
  CASE outcome = "already" -> p
    [] outcome = "exhausted" -> [p EXCEPT !.status = "FAILED"]
    [] outcome = "sent" -> [p EXCEPT !.status = AcceptedStatus, !.psp_transaction_id = txn]
    [] outcome = "retry" -> [p EXCEPT !.retry_count = p.retry_count + 1,
                                      !.next_retry_at = now + RetryDelay(p.retry_count + 1)]

\* the outcomes processPayment can have on row p: callPSP is reached only
\* past both tests, and either returns a response or throws
Outcomes(p) ==
  IF AlreadyProcessed(p) THEN {"already"}
  ELSE IF RetriesExhausted(p) THEN {"exhausted"}
  ELSE {"sent", "retry"}

\* one turn of processOutbox's loop: processPayment(event.payload.id) under
\* the row lock of SELECT ... FOR UPDATE, then the worker's UPDATE of the
\* outbox event
OutboxStep ==
  /\ oq # <<>>
  /\ LET e == Head(oq)
         i == RowOf(outbox[e].aggregate_id)
         p == payments[i]
     IN \E outcome \in Outcomes(p), txn \in Txns :
          /\ payments' = [payments EXCEPT ![i] = Processed(p, outcome, txn)]
          /\ outbox' = [outbox EXCEPT ![e].processed = @ \/ MarksProcessed(outcome)]
          /\ fails' = [fails EXCEPT ![p.id] = IF outcome = "retry" THEN @ + 1 ELSE @]
          /\ step' = [id |-> p.id, outcome |-> outcome, before |-> p,
                      after |-> Processed(p, outcome, txn),
                      called |-> outcome \in {"sent", "retry"},
                      marked |-> MarksProcessed(outcome), at |-> now]
  /\ oq' = Tail(oq)
  /\ UNCHANGED <<now, whResp, ptx, nextPay, coreVars, workerVars, assignVars, idemVars, raised, lifeVars, cacheVars>>

\* -------------------------------------------------- idempotency middleware
\* an entry that is gone the moment it is written
ExpiredAtOnce == now

\* a value as JSON.stringify writes it: a Date becomes its ISO string
ToJson(v) == IF v.type = "Date" THEN [type |-> "String", t |-> v.t] ELSE v
JsonStringify(body) == <<"json", [body EXCEPT !.created_at = ToJson(@)]>>
JsonParse(bytes) == bytes[2]

\* the body createRide's controller sends, and the body of errorHandler
RideBody(r) == [ride |-> r, created_at |-> [type |-> "Date", t |-> now], error |-> ""]
ErrorBody(message) == [ride |-> 0, created_at |-> [type |-> "Null", t |-> 0], error |-> message]

\* redis.get(`idem:${key}`): the value while the entry has not expired
IdemGet(k) == IF idem[k] # NoEntry /\ now < idem[k].expires THEN idem[k].val ELSE <<>>
\* redis.setEx(`idem:${key}`, 300, ...)
IdemExpiry == now + IdemTtlSec * 1000

IdemFrame ==
  UNCHANGED <<wphase, todo, wpc, cands, idx, assignVars, payVars, outboxVars, whResp, raised, lifeVars, cacheVars>>

\* the middleware on the route of endpoint ep: without a key it passes the
\* request on; with a cached value under idem:{key} it answers 200 with the
\* parsed value; otherwise it wraps res.json and passes the request on
Mounted(ep, q, k, valid) ==
  /\ req[q] = NoReq
  /\ IF k # NoKey /\ IdemGet(k) # <<>>
     THEN /\ resp' = [resp EXCEPT ![q] = [ep |-> ep, key |-> k, status |-> 200,
                                          bytes |-> JsonStringify(JsonParse(IdemGet(k))),
                                          ran |-> FALSE, from |-> idem[k].ep]]
          /\ UNCHANGED req
     ELSE /\ req' = [req EXCEPT ![q] = [pc |-> "run", ep |-> ep, key |-> k, valid |-> valid]]
          /\ UNCHANGED resp
  /\ UNCHANGED <<idem, origin, coreVars, hist>> /\ IdemFrame

\* router.post('/', idempotency, validateCreateRide, controller.createRide)
idempotency(q, k, valid) == Mounted("rides", q, k, valid)
\* router.post('/', paymentLimiter, idempotencyMiddleware, validateCreatePayment,
\* controller.createPayment)
idempotencyMiddleware(q, k, valid) == Mounted("payments", q, k, valid)

\* res.status(status).json(body) of a request that passed the middleware:
\* with a key, the wrapper stores the body first, whatever the status
sendJson(q, status, body) ==
  LET k == req[q].key IN
  /\ resp' = [resp EXCEPT ![q] = [ep |-> req[q].ep, key |-> k, status |-> status,
                                  bytes |-> JsonStringify(body), ran |-> TRUE,
                                  from |-> req[q].ep]]
  /\ IF k # NoKey
     THEN /\ idem' = [idem EXCEPT ![k] = [val |-> JsonStringify(body), expires |-> IdemExpiry,
                                          status |-> status, ep |-> req[q].ep]]
          /\ origin' = [origin EXCEPT ![k] = [status |-> status,
                                              bytes |-> JsonStringify(body), at |-> now]]
     ELSE UNCHANGED <<idem, origin>>
  /\ req' = [req EXCEPT ![q] = NoReq]

\* validateCreateRide, then the controller: a body that fails validation goes
\* to errorHandler (400), a valid one inserts the ride and is answered 201
postRide(q) ==
  /\ req[q].pc = "run" /\ req[q].ep = "rides"
  /\ IF req[q].valid
     THEN \E r \in Rides : rideInsert(r) /\ sendJson(q, 201, RideBody(r))
     ELSE UNCHANGED coreVars /\ sendJson(q, 400, ErrorBody("validation"))
  /\ Disturb /\ IdemFrame

\* the body createPayment's controller sends: the payments row
PaymentBody(p) == [payment |-> p.id, trip_id |-> p.trip_id, status |-> p.status,
                   created_at |-> [type |-> "Date", t |-> now]]

\* validateCreatePayment, then the controller: a body without trip_id goes to
\* errorHandler (400); createPaymentForTrip run from BEGIN to COMMIT with no
\* other call on the trip in flight inserts the payment and its event and is
\* answered 201; a trip that does not exist, or has no total_fare yet, makes
\* it throw, and errorHandler answers
postPayment(q) ==
  /\ req[q].pc = "run" /\ req[q].ep = "payments"
  /\ \A c \in PayCalls : ptx[c] = NoPay
  /\ IF req[q].valid
     THEN \E t \in Rides :
            IF tripStatus[t] = "ENDED" /\ nextPay <= MaxPayId
            THEN LET row == [id |-> nextPay, trip_id |-> t, status |-> "PENDING",
                             retry_count |-> 0, next_retry_at |-> NoTime,
                             psp_transaction_id |-> NoTxn]
                 IN /\ payments' = Append(payments, row)
                    /\ outbox' = Append(outbox, [aggregate_id |-> nextPay,
                                                 event_type |-> "PAYMENT_CREATED",
                                                 processed |-> FALSE])
                    /\ nextPay' = nextPay + 1
                    /\ sendJson(q, 201, PaymentBody(row))
            ELSE /\ UNCHANGED <<payments, outbox, nextPay>>
                 /\ sendJson(q, 500, ErrorBody("createPaymentForTrip"))
     ELSE /\ UNCHANGED <<payments, outbox, nextPay>>
          /\ sendJson(q, 400, ErrorBody("trip_id is required"))
  /\ UNCHANGED <<coreVars, workerVars, assignVars, ptx, outboxVars, whResp, raised, lifeVars, cacheVars>>

\* ------------------------------------------------------------------ specs
\* Spec: the services called directly, in any order and with any arguments, by
\* any number of callers; the worker's decision to expire a ride is taken at
\* will.  Every coordinate is the pickup point.
ExpireCall(r) == rideStatus[r] = "MATCHING" /\ expireRide(r) /\ UNCHANGED workerVars

Init == CoreInit /\ WorkerInit /\ AssignInit /\ PayInit /\ OutboxVarsInit /\ IdemInit

Next ==
  \/ \E d \in Drivers, loc \in {NoLoc, PickupPos} : createDriver(d, loc)
  \/ \E d \in Drivers : updateLocation(d, PickupPos)
  \/ \E d \in Drivers, st \in DRIVER_STATES : updateDriverStatus(d, st)
  \/ \E r \in SvcRides : createRide(r)
  \/ \E r \in Rides, d \in Drivers : initializeTrip(r, d)
  \/ \E r \in Rides : startTrip(r)
  \/ \E r \in Rides : pauseTrip(r)
  \/ \E r \in Rides : cancelTrip(r)
  \/ \E r \in Rides : endTrip(r, NoData)
  \/ \E c \in Calls, r \in Rides, d \in Drivers : CallSelect(c, r, d)
  \/ \E c \in Calls : CallWrite(c)
  \/ \E r \in Rides : ExpireCall(r)

Spec == Init /\ [][Next]_vars

\* SpecDispatch: the matching worker against the geo index and the clock, with
\* drivers registering, moving and changing status around it.
NextDispatch ==
  \/ \E d \in Drivers, loc \in Pos \cup {NoLoc} : createDriver(d, loc)
  \/ \E d \in Drivers, p \in Pos : updateLocation(d, p)
  \/ \E d \in Drivers, st \in DRIVER_STATES : updateDriverStatus(d, st)
  \/ \E r \in SvcRides : createRide(r)
  \/ Tick
  \/ PassStart
  \/ \E r \in Rides : TaskFind(r)
  \/ \E r \in Rides : TaskExpire(r)
  \/ \E r \in Rides : TaskAssignSelect(r)
  \/ \E r \in Rides : TaskAssignWrite(r)
  \/ BatchSettled

SpecDispatch == Init /\ [][NextDispatch]_vars

\* setTimeout(workerLoop, POLL_INTERVAL_MS) keeps the iterations coming, an
\* iteration works through its batches, and the clock runs
WorkerStep ==
  \/ PassStart
  \/ \E r \in Rides : TaskFind(r)
  \/ \E r \in Rides : TaskExpire(r)
  \/ \E r \in Rides : TaskAssignSelect(r)
  \/ \E r \in Rides : TaskAssignWrite(r)
  \/ BatchSettled
SpecDispatchLive == SpecDispatch /\ WF_vars(WorkerStep) /\ WF_vars(Tick)

\* SpecReuse: the whole life of a ride, from the worker's assignment through
\* the driver's acceptance of the ride assigned to them to the end of the
\* trip, with new rides arriving meanwhile.
accept(r) == rideDriver[r] # NoDriver /\ initializeTrip(r, rideDriver[r])

NextReuse ==
  \/ \E d \in Drivers, loc \in Pos : createDriver(d, loc)
  \/ \E r \in Rides : createRide(r)
  \/ \E r \in Rides : accept(r)
  \/ \E r \in Rides : startTrip(r)
  \/ \E r \in Rides : endTrip(r, NoData)
  \/ PassStart
  \/ \E r \in Rides : TaskFind(r)
  \/ \E r \in Rides : TaskAssignSelect(r)
  \/ \E r \in Rides : TaskAssignWrite(r)
  \/ BatchSettled

SpecReuse == Init /\ [][NextReuse]_vars

\* SpecPay: payments for the trips of rides that were assigned, accepted,
\* started and ended, with the payment provider's webhooks coming in.
NextPay ==
  \/ \E d \in Drivers : createDriver(d, NoLoc)
  \/ \E r \in SvcRides : createRide(r)
  \/ \E c \in Calls, r \in Rides, d \in Drivers : CallSelect(c, r, d)
  \/ \E c \in Calls : CallWrite(c)
  \/ \E r \in Rides : accept(r)
  \/ \E r \in Rides : startTrip(r)
  \/ \E r \in Rides : endTrip(r, NoData)
  \/ \E c \in PayCalls, t \in Rides : PayBegin(c, t)
  \/ \E c \in PayCalls : PayInsertPayment(c)
  \/ \E c \in PayCalls : PayInsertEvent(c)
  \/ \E c \in PayCalls : PayCommit(c)
  \/ \E c \in PayCalls : PayRollback(c)
  \/ \E i \in 1..MaxPayId, txn \in Txns, ok \in BOOLEAN : webhook("valid", i, txn, ok)

SpecPay == Init /\ [][NextPay]_vars

\* SpecOutbox: the outbox worker, processPayment and the provider's webhooks
\* over the payments of one ended trip.  It starts where SpecPay arrives once
\* the first driver has been assigned to the first ride, has accepted it and
\* has started and ended its trip.
\* the trips row of a trip started and ended at once, with no tripData
EndedRow ==
  LET fareCalc == calculateFare(DefaultDistance, 0, NoTerms.tier, NoTerms.surge)
  IN [NoTrip EXCEPT !.started_at = 0, !.ended_at = 0, !.distance_km = DefaultDistance,
                    !.duration_sec = 0, !.base_fare = fareCalc.base_fare,
                    !.total_fare = fareCalc.total_fare]

EndedTrip ==
  /\ drvStatus = [d \in Drivers |-> IF d = 1 THEN "AVAILABLE" ELSE "NONE"]
  /\ drvLoc = [d \in Drivers |-> NoLoc]
  /\ geo = [d \in Drivers |-> NoLoc]
  /\ rideStatus = [r \in Rides |-> IF r = 1 THEN "COMPLETED" ELSE "NONE"]
  /\ rideDriver = [r \in Rides |-> IF r = 1 THEN 1 ELSE NoDriver]
  /\ age = [r \in Rides |-> 0]
  /\ tripStatus = [r \in Rides |-> IF r = 1 THEN "ENDED" ELSE "NONE"]
  /\ tripDriver = [r \in Rides |-> IF r = 1 THEN 1 ELSE NoDriver]
  /\ trips = [r \in Rides |-> IF r = 1 THEN EndedRow ELSE NoTrip]
  /\ terms = [r \in Rides |-> NoTerms]
  /\ tx = [c \in Slots |-> NoTx]
  /\ assignOk = [r \in Rides |-> IF r = 1 THEN 1 ELSE 0]
  /\ winner = [r \in Rides |-> IF r = 1 THEN 1 ELSE NoDriver]

\* the payments of SpecOutbox are created one after the other
FirstPayCall == CHOOSE c \in PayCalls : \A b \in PayCalls : c <= b

InitOutbox == EndedTrip /\ WorkerInit /\ PayInit /\ OutboxVarsInit /\ IdemInit

NextOutbox ==
  \/ \E t \in Rides : nextPay <= NumOutboxPays /\ PayBegin(FirstPayCall, t)
  \/ PayInsertPayment(FirstPayCall)
  \/ PayInsertEvent(FirstPayCall)
  \/ PayCommit(FirstPayCall)
  \/ \E sig \in Signatures, i \in 1..MaxPayId, txn \in Txns, ok \in BOOLEAN : webhook(sig, i, txn, ok)
  \/ Advance(PollMs)
  \/ OutboxPoll
  \/ OutboxStep

SpecOutbox == InitOutbox /\ [][NextOutbox]_vars

\* setInterval(processOutbox, 5000) keeps polling, and a poll that found
\* events works through them
SpecOutboxLive == SpecOutbox /\ WF_vars(OutboxPoll) /\ WF_vars(OutboxStep)

\* SpecIdem: create-ride requests, with and without an Idempotency-Key, valid
\* and invalid, while the clock runs past the entries' time to live.
NextIdem ==
  \/ \E q \in Reqs, k \in Keys \cup {NoKey}, valid \in BOOLEAN : idempotency(q, k, valid)
  \/ \E q \in Reqs : postRide(q)
  \/ Advance(IdemTickSec * 1000)

SpecIdem == Init /\ [][NextIdem]_vars

\* SpecIdemPay: create-ride and create-payment requests through the one
\* middleware, next to an ended trip that can be paid for.
\* the requests of SpecIdemPay come one after the other
FirstReq == CHOOSE q \in Reqs : \A p \in Reqs : q <= p

NextIdemPay ==
  \/ \E k \in Keys \cup {NoKey}, valid \in BOOLEAN : idempotency(FirstReq, k, valid)
  \/ \E k \in Keys \cup {NoKey}, valid \in BOOLEAN : idempotencyMiddleware(FirstReq, k, valid)
  \/ postRide(FirstReq)
  \/ postPayment(FirstReq)

SpecIdemPay == InitOutbox /\ [][NextIdemPay]_vars

\* SpecTrip: two trips from the driver's acceptance to their end, with the
\* clock running and every tripData of the model.  It starts where SpecReuse
\* arrives once two drivers exist and two rides of the same tier and surge
\* multiplier have each been assigned to one of them.
Tiers == {"ECONOMY", "PREMIUM"}
Surges == {DefaultSurge, 2 * DefaultSurge}

AssignedRides ==
  /\ drvStatus = [d \in Drivers |-> IF d \in SvcRides THEN "AVAILABLE" ELSE "NONE"]
  /\ drvLoc = [d \in Drivers |-> NoLoc]
  /\ geo = [d \in Drivers |-> NoLoc]
  /\ rideStatus = [r \in Rides |-> IF r \in SvcRides THEN "DRIVER_ASSIGNED" ELSE "NONE"]
  /\ rideDriver = [r \in Rides |-> IF r \in SvcRides /\ r \in Drivers THEN r ELSE NoDriver]
  /\ age = [r \in Rides |-> 0]
  /\ tripStatus = [r \in Rides |-> "NONE"]
  /\ tripDriver = [r \in Rides |-> NoDriver]
  /\ trips = [r \in Rides |-> NoTrip]
  /\ \E tier \in Tiers, surge \in Surges :
       terms = [r \in Rides |-> IF r \in SvcRides THEN [tier |-> tier, surge |-> surge]
                                 ELSE NoTerms]
  /\ tx = [c \in Slots |-> NoTx]
  /\ assignOk = [r \in Rides |-> IF r \in SvcRides THEN 1 ELSE 0]
  /\ winner = [r \in Rides |-> IF r \in SvcRides THEN r ELSE NoDriver]

InitTrip == AssignedRides /\ WorkerInit /\ PayInit /\ OutboxVarsInit /\ IdemInit

NextTrip ==
  \/ \E r \in Rides : accept(r)
  \/ \E r \in Rides : startTrip(r)
  \/ \E r \in Rides : pauseTrip(r)
  \/ \E r \in Rides : cancelTrip(r)
  \/ \E r \in Rides, tripData \in TripData : endTrip(r, tripData)
  \/ Advance(TripTickSec * 1000)

SpecTrip == InitTrip /\ [][NextTrip]_vars

\* SpecTripErr: the assignment and trip services called in any order, on any
\* ride, driver and trip, with the calls they refuse.
FirstCall == CHOOSE c \in Calls : \A b \in Calls : c <= b

NextTripErr ==
  \/ \E d \in Drivers : createDriver(d, NoLoc)
  \/ \E r \in SvcRides : createRide(r)
  \/ \E r \in Rides, d \in Drivers : CallSelect(FirstCall, r, d)
  \/ CallCommits(FirstCall)
  \/ assignDriverRaises(FirstCall)
  \/ \E r \in Rides, d \in Drivers : initializeTrip(r, d)
  \/ \E r \in Rides, d \in Drivers : initializeTripRaises(r, d)
  \/ \E r \in Rides : startTrip(r)
  \/ \E r \in Rides : startTripRaises(r)
  \/ \E r \in Rides : pauseTrip(r)
  \/ \E r \in Rides : cancelTrip(r)
  \/ \E r \in Rides : cancelTripRaises(r)
  \/ \E r \in Rides : endTrip(r, NoData)
  \/ \E r \in Rides : endTripRaises(r, NoData)

SpecTripErr == Init /\ [][NextTripErr]_vars

\* SpecCache: the trips of assigned rides accepted, started, ended and
\* cancelled while getDriverById and getDriverStatus read their drivers.
InitCache == InitTrip /\ terms = [r \in Rides |-> NoTerms]

NextCache ==
  \/ \E k \in Readers, fn \in {"getDriverById", "getDriverStatus"}, d \in Drivers :
       getDriver(k, fn, d)
  \/ \E k \in Readers : getDriverCaches(k)
  \/ \E d \in Drivers, key \in {"row", "status"} : cacheExpires(d, key)
  \/ \E r \in Rides : initializeTripCommits(r)
  \/ \E r \in Rides : initializeTripInvalidates(r)
  \/ \E r \in Rides : hpc[r] = "" /\ startTrip(r)
  \/ \E r \in Rides, op \in {"endTrip", "cancelTrip"} : closeInvalidates(r, op)
  \/ \E r \in Rides : closeCommits(r)

SpecCache == InitCache /\ [][NextCache]_vars

\* The matching worker's start(), stop() and workerLoop chains.
NextWorker ==
  \/ start
  \/ stop
  \/ \E c \in Loops : workerLoop(c)
  \/ \E c \in Loops : workerLoopResumes(c)

SpecWorker == Init /\ [][NextWorker]_vars

\* ------------------------------------------------------------ properties
Terminal(transitions) == {st \in DOMAIN transitions : transitions[st] = {}}

C2_OneActiveTripPerDriver ==
  \A d \in Drivers :
    Cardinality({r \in Rides : tripDriver[r] = d /\ tripStatus[r] \in ActiveTrip}) <= 1
\* a driver with an active trip whose status was set back to AVAILABLE, and a
\* second ride without a trip: initializeTrip's own check would let it through
C2_Witness ==
  \E d \in Drivers, r, r2 \in Rides :
    /\ r # r2
    /\ tripDriver[r] = d /\ tripStatus[r] \in ActiveTrip
    /\ drvStatus[d] = "AVAILABLE"
    /\ rideStatus[r2] # "NONE" /\ tripStatus[r2] = "NONE"

C3_Unique ==
  \A r1, r2 \in Rides : r1 # r2 /\ rideDriver[r1] # NoDriver => rideDriver[r1] # rideDriver[r2]
C3_HeldElsewhere(c) ==
  tx[c] # NoTx /\ \E r2 \in Rides \ {tx[c].ride} : rideDriver[r2] = tx[c].driver
C3_Step ==
  \A c \in Calls :
    C3_HeldElsewhere(c) /\ tx'[c] = NoTx =>
      /\ rideStatus'[tx[c].ride] = rideStatus[tx[c].ride]
      /\ rideDriver'[tx[c].ride] = rideDriver[tx[c].ride]
\* C3: no two rides carry the same assigned_driver_id, and an assignDriver call
\* whose driver is already held by another ride ends with its ride unchanged
C3_AssignedDriverUnique == []C3_Unique /\ [][C3_Step]_vars
\* a call that read a MATCHING ride and an AVAILABLE driver, the driver being
\* held by another ride: only the constraint is left to stop it
C3_Witness ==
  \E c \in Calls :
    /\ C3_HeldElsewhere(c)
    /\ tx[c].rstatus = "MATCHING" /\ tx[c].dstatus = "AVAILABLE"

C4_Step ==
  /\ \A r \in Rides : rideStatus[r] # "NONE" /\ rideStatus'[r] # rideStatus[r] =>
       validateTransition(rideStatus[r], rideStatus'[r], RIDE_TRANSITIONS)
  /\ \A d \in Drivers : drvStatus[d] # "NONE" /\ drvStatus'[d] # drvStatus[d] =>
       validateTransition(drvStatus[d], drvStatus'[d], DRIVER_TRANSITIONS)
  /\ \A r \in Rides : tripStatus[r] # "NONE" /\ tripStatus'[r] # tripStatus[r] =>
       validateTransition(tripStatus[r], tripStatus'[r], TRIP_TRANSITIONS)
  /\ \A r \in Rides : rideStatus[r] \in Terminal(RIDE_TRANSITIONS) => rideStatus'[r] = rideStatus[r]
  /\ \A r \in Rides : tripStatus[r] \in Terminal(TRIP_TRANSITIONS) => tripStatus'[r] = tripStatus[r]
\* C4: every change of a ride's, driver's or trip's status is listed in its
\* transition table, and no terminal status of a ride or trip is ever left
C4_OnlyListedTransitions == [][C4_Step]_vars
\* a ride in a terminal status whose trip can still be ended: endTrip would
\* write COMPLETED over it
C4_Witness ==
  \E r \in Rides :
    /\ rideStatus[r] \in Terminal(RIDE_TRANSITIONS)
    /\ canEndTrip(tripStatus[r])
    /\ drvStatus[tripDriver[r]] = "ON_TRIP"

\* C5: a driver is in drivers:geo exactly when the stored status is AVAILABLE
C5_GeoIffAvailable ==
  \A d \in Drivers : geo[d] # NoLoc <=> drvStatus[d] = "AVAILABLE"

C6_Step ==
  \A r \in Rides : wpc[r] = "find" /\ wpc'[r] # "find" =>
    \A i \in 1..Len(cands'[r]) : drvStatus[cands'[r][i]] = "AVAILABLE"
\* C6: a findNearbyDrivers query returns no driver whose stored status is
\* OFFLINE or ON_TRIP at the time of the query
C6_QueryReturnsOnlyAvailable == [][C6_Step]_vars

\* an iteration of the worker that nothing else ran into has settled
QuietPassDone == PassDone /\ hist.quiet
\* no ride outside the iteration's selection is waiting for its driver's accept
NoLiveAssignment == \A r \in Rides \ hist.sel : rideStatus[r] # "DRIVER_ASSIGNED"

C7_Race(r1, r2, D1, D2) ==
  /\ r1 # r2 /\ hist.sel = {r1, r2}
  /\ D1 # D2 /\ {D1, D2} \subseteq hist.avail
  /\ cands[r1] = <<D1, D2>> /\ cands[r2] = <<D1, D2>>
  /\ NoLiveAssignment
\* C7: two MATCHING rides processed in one iteration with the same first
\* candidate D1 and a second candidate D2, both AVAILABLE and neither awaited by
\* another ride: the iteration ends with both rides DRIVER_ASSIGNED, one to D1
\* and the other to D2
C7_BothAssignedDistinct ==
  QuietPassDone =>
    \A r1, r2 \in Rides, D1, D2 \in Drivers : C7_Race(r1, r2, D1, D2) =>
      /\ rideStatus[r1] = "DRIVER_ASSIGNED" /\ rideStatus[r2] = "DRIVER_ASSIGNED"
      /\ {rideDriver[r1], rideDriver[r2]} = {D1, D2}

\* C8: a MATCHING ride that an iteration processes alone, with an AVAILABLE
\* driver in the radius and no driver awaited by another ride, is
\* DRIVER_ASSIGNED to one of the AVAILABLE drivers when the iteration ends
C8_AssignedWithinIteration ==
  QuietPassDone =>
    \A r \in Rides : hist.sel = {r} /\ hist.avail # {} /\ NoLiveAssignment =>
      rideStatus[r] = "DRIVER_ASSIGNED" /\ rideDriver[r] \in hist.avail

C9_Inv ==
  QuietPassDone =>
    \A r \in hist.sel \cap hist.old : cands[r] = <<>> => rideStatus[r] = "EXPIRED"
C9_Step ==
  wphase = "idle" /\ wphase' = "pass" =>
    \A r \in hist'.sel : rideStatus[r] = "MATCHING"
C10_PaymentsMatchEvents ==
  /\ \A i \in DOMAIN payments :
       Cardinality({j \in DOMAIN outbox : /\ outbox[j].event_type = "PAYMENT_CREATED"
                                          /\ outbox[j].aggregate_id = payments[i].id}) = 1
  /\ \A j \in DOMAIN outbox : outbox[j].event_type = "PAYMENT_CREATED" =>
       Cardinality({i \in DOMAIN payments : payments[i].id = outbox[j].aggregate_id}) = 1
\* a payment committed with its event after an earlier call was rolled back
\* with its payment written
C10_Witness ==
  /\ payments # <<>>
  /\ \E id \in 1..MaxPayId :
       /\ id < nextPay
       /\ \A k \in DOMAIN payments : payments[k].id # id
       /\ \A c \in PayCalls : ptx[c].id # id

\* C11: the outbox path run on a payment that is PROCESSING,
\* COMPLETED or FAILED leaves the payment row as it was, calls the provider
\* not at all and marks the outbox event processed
C11_SettledPaymentUntouched ==
  step.before.status \in {"PROCESSING", "COMPLETED", "FAILED"} =>
    /\ step.after = step.before
    /\ ~step.called
    /\ step.marked

C12_FinalStep ==
  \A i \in DOMAIN payments :
    payments[i].status \in {"COMPLETED", "FAILED"} => payments'[i].status = payments[i].status
\* C12: a payment that is COMPLETED or FAILED keeps that status in every
\* later step, whatever webhook arrives
C12_FinalStatusFrozen == [][C12_FinalStep]_vars

ViaWebhook(i) ==
  \E sig \in Signatures, txn \in Txns, ok \in BOOLEAN : sig # "none" /\ webhook(sig, i, txn, ok)
ViaExhausted(i) ==
  /\ OutboxStep
  /\ step'.id = payments[i].id
  /\ step'.outcome = "exhausted"
  /\ payments[i].retry_count >= 3
C13_Step ==
  /\ \A i \in DOMAIN payments :
       payments'[i].status # payments[i].status =>
         /\ payments'[i].status = "COMPLETED" => ViaWebhook(i)
         /\ payments'[i].status = "FAILED" => ViaWebhook(i) \/ ViaExhausted(i)
  /\ \A i \in DOMAIN payments' \ DOMAIN payments : payments'[i].status = "PENDING"
\* C13: a step that changes a payment's status to COMPLETED is a handleWebhook,
\* a step that changes it to FAILED is a handleWebhook or a processPayment
\* that found retry_count at max_retries, and a new row starts PENDING
C13_FinalOnlyByWebhookOrExhaustion == [][C13_Step]_vars

C13_Witness ==
  /\ step.outcome = "exhausted"
  /\ step.before.status = "PENDING"
  /\ step.after.status = "FAILED"
  /\ \E i \in DOMAIN payments : payments[i].status = "COMPLETED"

\* C14: the worker calls the provider for a payment only when its
\* next_retry_at is null or not later than the clock
C14_NoCallBeforeRetryTime ==
  step.called => step.before.next_retry_at = NoTime \/ step.before.next_retry_at <= step.at

C16_BackoffSchedule ==
  /\ step.outcome = "retry" =>
       LET k == fails[step.id] IN
         /\ k \in 1..3
         /\ step.after.status = step.before.status
         /\ step.after.retry_count = k
         /\ step.after.next_retry_at =
              step.at + (CASE k = 1 -> 30000 [] k = 2 -> 120000 [] OTHER -> 480000)
  /\ \A k \in 4..6 : RetryDelay(k) = 480000

C16_Witness ==
  /\ step.outcome = "retry"
  /\ fails[step.id] = 3
  /\ step.before.status = "PENDING"
  /\ step.after.status = "PENDING"
  /\ step.at > 0

C18_BadSignatureRejected ==
  whResp # NoHook /\ whResp.sig # "valid" => whResp.status = 401 /\ ~whResp.wrote

C19_Begins(q, k) ==
  /\ req[q] = NoReq
  /\ \/ req'[q].pc = "run" /\ req'[q].key = k
     \/ resp'[q] # resp[q] /\ resp'[q].key = k
RidesIn(status) == Cardinality({r \in Rides : status[r] # "NONE"})
C19_Step ==
  /\ \A q \in Reqs, k \in Keys :
       C19_Begins(q, k) /\ origin[k].status = 201 /\ now < origin[k].at + 300 * 1000 =>
         /\ resp'[q].bytes = origin[k].bytes
         /\ ~resp'[q].ran
         /\ req'[q] = NoReq
         /\ rideStatus' = rideStatus
  /\ \A q \in Reqs :
       resp'[q] # resp[q] /\ resp'[q].status = 201 => RidesIn(rideStatus') = RidesIn(rideStatus) + 1
\* C19: a create-ride request that arrives less than 300 s after a request
\* with the same key was answered 201 gets the bytes of that answer, the
\* handler does not run and no ride row is added; the first request added
\* exactly one
C19_ReplayWithinTtl == [][C19_Step]_vars

C19_Witness ==
  \E q \in Reqs, k \in Keys :
    /\ resp[q].key = k
    /\ resp[q].status = 200
    /\ ~resp[q].ran
    /\ origin[k].status = 201
    /\ resp[q].bytes = origin[k].bytes
    /\ origin[k].at < now
    /\ RidesIn(rideStatus) = 1

\* C20: an entry is stored only for a response with a 2xx status
C20_OnlySuccessCached ==
  \A k \in Keys : idem[k] # NoEntry => idem[k].status \in 200..299

\* C21: a request answered from the cache gets a response that a request to
\* the same endpoint stored: a create-payment request never gets what
\* create-ride stored under its key, nor the other way round
C21_NamespacedPerEndpoint ==
  \A q \in Reqs : resp[q] # NoResp /\ ~resp[q].ran => resp[q].from = resp[q].ep

C22_Step ==
  /\ \A r \in Rides :
       /\ tripStatus'[r] = "ENDED" /\ tripStatus[r] # "ENDED" =>
            drvStatus'[tripDriver[r]] = "AVAILABLE" /\ rideStatus'[r] = "COMPLETED"
       /\ tripStatus'[r] = "CANCELLED" /\ tripStatus[r] # "CANCELLED" =>
            drvStatus'[tripDriver[r]] = "AVAILABLE" /\ rideStatus'[r] = "CANCELLED"
  /\ raised' # raised /\ raised'.op \in {"endTrip", "cancelTrip"} =>
       UNCHANGED <<tripStatus, trips, drvStatus, rideStatus>>
\* C22: a step that makes a trip ENDED (CANCELLED) leaves its driver AVAILABLE
\* and its ride COMPLETED (CANCELLED), and an endTrip or cancelTrip that
\* throws changes neither the trip nor any driver or ride
C22_CloseIsAtomic == [][C22_Step]_vars
\* an endTrip whose check of the trip passed and whose UPDATE of the ride was
\* refused, next to a trip that was ended
C22_Witness ==
  /\ raised.op = "endTrip" /\ raised.was \in {"STARTED", "PAUSED"}
  /\ tripStatus[raised.ride] = raised.was
  /\ drvStatus[raised.driver] = "ON_TRIP"
  /\ rideStatus[raised.ride] # "DRIVER_ASSIGNED"
  /\ \E r \in Rides : tripStatus[r] = "ENDED" /\ rideStatus[r] = "COMPLETED"

\* C23: a trip in STARTED, PAUSED or ENDED has a started_at, and a trip in
\* ENDED has an ended_at not earlier than started_at and a total_fare
C23_TripTiming ==
  \A r \in Rides :
    /\ tripStatus[r] \in {"STARTED", "PAUSED", "ENDED"} => trips[r].started_at # Null
    /\ tripStatus[r] = "ENDED" =>
         /\ trips[r].ended_at # Null
         /\ trips[r].ended_at >= trips[r].started_at
         /\ trips[r].total_fare # Null
\* a trip ended by a transaction that began before the clock's present
\* reading, and a trip started after transactions that are still open began
C23_Witness ==
  /\ \E r \in Rides : tripStatus[r] = "ENDED" /\ trips[r].ended_at < now
  /\ \E r \in Rides : tripStatus[r] \in {"STARTED", "PAUSED"} /\ trips[r].started_at > 0

\* tier base + distance_km x per_km + duration_sec / 60 x per_min of an ended
\* trip, in sixtieths of a cent
C24_Subtotal(r) ==
  LET rates == TIER_RATES[terms[r].tier]
  IN 60 * rates.base + 6 * trips[r].distance_km * rates.per_km
       + trips[r].duration_sec * rates.per_min
\* C24: an ended trip's base_fare is the pre-surge subtotal and its
\* total_fare that subtotal times the surge multiplier, to two decimals;
\* ECONOMY, 10 km, 1200 s gives base_fare 25.00 and total_fare 25.00 at surge
\* 1.0, 50.00 at surge 2.0
C24_FaresStored ==
  \A r \in Rides : tripStatus[r] = "ENDED" =>
    /\ trips[r].base_fare = ToFixed2(C24_Subtotal(r), 60)
    /\ trips[r].total_fare = ToFixed2(C24_Subtotal(r) * terms[r].surge, 6000)
    /\ terms[r].tier = "ECONOMY" /\ trips[r].distance_km = 100 /\ trips[r].duration_sec = 1200 =>
         /\ trips[r].base_fare = 2500
         /\ terms[r].surge = 100 => trips[r].total_fare = 2500
         /\ terms[r].surge = 200 => trips[r].total_fare = 5000

\* C25: two trips ended with the same supplied distance_km and duration_sec,
\* on rides of the same tier and surge multiplier, have the same total_fare,
\* whenever they were started and ended
C25_FareDeterministic ==
  \A r1, r2 \in Rides :
    /\ tripStatus[r1] = "ENDED" /\ tripStatus[r2] = "ENDED"
    /\ trips[r1].given_km # Null /\ trips[r1].given_km = trips[r2].given_km
    /\ trips[r1].given_sec # Null /\ trips[r1].given_sec = trips[r2].given_sec
    /\ terms[r1] = terms[r2]
    => trips[r1].total_fare = trips[r2].total_fare

\* C26: the start operation on a PAUSED trip is not refused: it never throws
\* on a trip that is PAUSED
C26_StartResumesPaused ==
  ~(raised.op = "startTrip" /\ raised.was = "PAUSED")

\* C27: after stop() and until the next start(), no iteration of
\* processMatchingRides begins, an iteration in flight ends without
\* scheduling another, and no poll timer is pending
C27_Step ==
  \A c \in Loops :
    /\ loops[c] # "running" /\ loops'[c] = "running" => ~halted'
    /\ halted /\ halted' /\ loops[c] = "running" /\ loops'[c] # "running" => loops'[c] = "none"
C27_NoTimer == halted => \A c \in Loops : loops[c] # "scheduled"
C27_StopHalts == [][C27_Step]_vars /\ []C27_NoTimer

\* C28: a step that commits an assignment leaves every driver's status as it
\* was, the assigned driver AVAILABLE and the ride without a trip row; a step
\* that creates a trip is not an assignment and puts the trip's driver ON_TRIP
C28_Step ==
  \A r \in Rides :
    /\ assignOk'[r] > assignOk[r] =>
         /\ drvStatus' = drvStatus
         /\ drvStatus'[rideDriver'[r]] = "AVAILABLE"
         /\ tripStatus'[r] = "NONE"
    /\ tripStatus[r] = "NONE" /\ tripStatus'[r] # "NONE" =>
         /\ assignOk' = assignOk
         /\ drvStatus'[tripDriver'[r]] = "ON_TRIP"
C28_AssignLeavesDriverAndTrips == [][C28_Step]_vars

\* C29: an assignDriver call that ends while its ride is not MATCHING, its
\* driver is not AVAILABLE or another ride holds its driver commits nothing:
\* the ride row and the driver row are what they were
C29_Step ==
  \A c \in Slots :
    tx[c] # NoTx /\ tx'[c] = NoTx =>
      LET r == tx[c].ride
          d == tx[c].driver
      IN (\/ rideStatus[r] # "MATCHING"
          \/ drvStatus[d] # "AVAILABLE"
          \/ \E r2 \in Rides \ {r} : rideDriver[r2] = d) =>
           /\ assignOk'[r] = assignOk[r]
           /\ rideStatus'[r] = rideStatus[r] /\ rideDriver'[r] = rideDriver[r]
           /\ drvStatus'[d] = drvStatus[d]
C30_Step ==
  /\ \A r \in Rides :
       tripStatus[r] = "NONE" /\ tripStatus'[r] # "NONE" =>
         /\ tripStatus'[r] = "CREATED"
         /\ drvStatus[tripDriver'[r]] = "AVAILABLE" /\ drvStatus'[tripDriver'[r]] = "ON_TRIP"
  /\ \A d \in Drivers :
       drvStatus[d] # "ON_TRIP" /\ drvStatus'[d] = "ON_TRIP" =>
         \E r \in Rides : tripStatus[r] = "NONE" /\ tripStatus'[r] = "CREATED" /\ tripDriver'[r] = d
  /\ raised' # raised /\ raised'.op = "initializeTrip" =>
       /\ drvStatus' = drvStatus
       /\ tripStatus' = tripStatus /\ tripDriver' = tripDriver /\ trips' = trips
C30_AcceptIsAtomic == [][C30_Step]_vars
\* the INSERT INTO trips raised after the driver's UPDATE had matched
C30_Witness ==
  /\ raised.op = "initializeTrip" /\ raised.was = "AVAILABLE"
  /\ drvStatus[raised.driver] = "AVAILABLE"
  /\ \A r \in Rides : tripDriver[r] # raised.driver

\* C31: once assignDriver has committed for a ride inside the candidate loop
\* of attemptDriverAssignment, the loop ends: the task of that ride is done
\* and makes no further assignDriver call in the pass
C31_Step ==
  \A r \in Rides :
    wpc[r] = "write" /\ assignOk'[r] > assignOk[r] => wpc'[r] = "done"
C31_StopsAfterSuccess == [][C31_Step]_vars

\* C32: an ENDED trip carries the distance_km and the duration_sec endTrip
\* was given, the value 0 included, and a distance of 0 when none was given;
\* its total_fare is the fare of the stored values
C32_StoredAsSupplied ==
  \A r \in Rides :
    tripStatus[r] = "ENDED" =>
      /\ trips[r].given_km # Null => trips[r].distance_km = trips[r].given_km
      /\ trips[r].given_sec # Null => trips[r].duration_sec = trips[r].given_sec
      /\ trips[r].given_km = Null => trips[r].distance_km = 0
      /\ trips[r].total_fare =
           calculateFare(trips[r].distance_km, trips[r].duration_sec,
                         terms[r].tier, terms[r].surge).total_fare

\* the driver's earlier ride is over: its trip ENDED or CANCELLED
Released(d) ==
  \E r0 \in Rides : /\ rideDriver[r0] = d /\ tripDriver[r0] = d
                    /\ tripStatus[r0] \in {"ENDED", "CANCELLED"}
\* C33: a MATCHING ride that an iteration processes alone, whose only
\* candidate is an AVAILABLE driver released by the end of an earlier ride's
\* trip, is DRIVER_ASSIGNED to that driver when the iteration ends
C33_ReleasedDriverReassigned ==
  QuietPassDone =>
    \A r \in Rides, d \in Drivers :
      hist.sel = {r} /\ cands[r] = <<d>> /\ hist.avail = {d} /\ Released(d) =>
        rideStatus[r] = "DRIVER_ASSIGNED" /\ rideDriver[r] = d

\* C34: with the worker iterating and the clock running, a ride in MATCHING
\* eventually is not in MATCHING any more
C34_LeavesMatching ==
  \A r \in Rides : (rideStatus[r] = "MATCHING") ~> (rideStatus[r] # "MATCHING")

\* C35: the ride of every trip is assigned to the trip's driver
C35_TripOfAssignedDriver ==
  \A r \in Rides : tripStatus[r] # "NONE" => rideDriver[r] = tripDriver[r]

\* C36: a driver with a trip in CREATED, STARTED or PAUSED is not AVAILABLE
C36_BusyDriverNotAvailable ==
  \A r \in Rides :
    tripStatus[r] \in ActiveTrip => drvStatus[tripDriver[r]] # "AVAILABLE"

\* C37: no two payments rows are of the same trip
C37_OnePaymentPerTrip ==
  \A i, j \in DOMAIN payments :
    payments[i].trip_id = payments[j].trip_id => i = j

\* C38: the create-ride handler does not run to a 201 for a key under which
\* a 201 was stored less than 300 s before: requests that carry the same key
\* at the same time insert one ride between them
C38_Step ==
  \A q \in Reqs, k \in Keys :
    resp'[q] # resp[q] /\ resp'[q].key = k /\ resp'[q].ran /\ resp'[q].status = 201 =>
      ~(origin[k].status = 201 /\ now < origin[k].at + IdemTtlSec * 1000)
C38_ConcurrentSameKeyRunsOnce == [][C38_Step]_vars

\* no handler and no read is in flight on the driver
Settled(d) ==
  /\ \A r \in Rides : hpc[r] # "" => tripDriver[r] # d
  /\ \A k \in Readers : rd[k].driver # d
\* C39: once a trip of the driver has been accepted, ended or cancelled and
\* nothing is in flight on the driver, each of the driver's two cache keys is
\* absent or holds the committed status
C39_CacheCarriesCommitted ==
  \A d \in Drivers :
    (\E r \in Rides : tripStatus[r] # "NONE" /\ tripDriver[r] = d) /\ Settled(d) =>
      /\ dcache[d].row \in {"", drvStatus[d]}
      /\ dcache[d].status \in {"", drvStatus[d]}

\* C40: at most one workerLoop chain is running or scheduled at any time,
\* whatever the sequence of start() and stop() calls
C40_OnePollingChain == Cardinality({c \in Loops : loops[c] # "none"}) <= 1

====
